---- MODULE Spec2Model ----
(***************************************************************************)
(* Model of the xdelta patch generator (patch_builder), the applier stub   *)
(* (patch_stub) and the container that couples them (installer.rs /        *)
(* load_bundle).                                                           *)
(*                                                                         *)
(* Three specifications share the module:                                  *)
(*   SpecBuild  build_bundle with its parallel classification tasks        *)
(*   Spec       the applier: verify_base_folder, then apply_bundle with    *)
(*              its parallel per-file tasks, on a tree the environment may *)
(*              have changed since the build, run up to MaxRuns times     *)
(*   SpecLoad   build_installer_exe and load_bundle on the executable file *)
(*                                                                         *)
(* File contents are sequences of blocks; one block stands for one chunk   *)
(* of at most 8192 bytes, the unit in which the stub writes a file.        *)
(***************************************************************************)
EXTENDS Integers, Sequences, FiniteSets, TLC

(* ------------------------------ bounds -------------------------------- *)
\* files in the union of the old and the new tree
MaxFiles == 2
\* size of the rayon thread pool (current_num_threads)
NumWorkers == 2
\* successive runs of the applier on the same tree
MaxRuns == 2
\* changes the environment makes to the tree between build and apply
MaxTamper == 2
\* changes made to the executable between build_installer_exe and load_bundle
MaxCorrupt == 2
\* values a byte of the executable can hold (256, scaled down)
ByteRadix == 8

(* ------------------------- program constants -------------------------- *)
\* the length footer: the 8 bytes of a u64
FooterLen == 8
\* [u8; 32]
HashLen == 32

(* ------------------------------ paths --------------------------------- *)
\* A relative path of at most two segments: dir is "" for a file directly
\* under the root; the file name is stem, or stem.ext when ext # "".
P(d, s, e) == [dir |-> d, stem |-> s, ext |-> e]

\* the paths a tree may hold a regular file at
TreePaths ==
  { P("", "a", "exe"), P("", "a", "dat"), P("", "a", "tmp"), P("d", "b", "") }

\* Path::set_extension("tmp"): the extension of the file name is replaced,
\* or added when the name has none
SetExtension(p) == [p EXCEPT !.ext = "tmp"]

\* Path::parent of a target below a directory (the root itself is "")
Parent(p) == P("", p.dir, "")
HasParentDir(p) == p.dir # ""

\* every location of the filesystem the programs can touch
FsPaths ==
  TreePaths \cup {SetExtension(p) : p \in TreePaths}
            \cup {Parent(p) : p \in {q \in TreePaths : HasParentDir(q)}}

(* ---------------------------- file contents --------------------------- *)
\* block 0 is a block of zero bytes (what a hole of a sparse file reads as)
Contents == { <<1>>, <<2, 1>> }
\* what the environment overwrites a file with ("abcdef!")
TamperedContents == { <<3>> }

Absent == [kind |-> "absent", data |-> <<>>]
Dir == [kind |-> "dir", data |-> <<>>]
File(c) == [kind |-> "file", data |-> c]

IsFile(fsys, p) == fsys[p].kind = "file"
\* Path::exists: true of a directory as well
Exists(fsys, p) == fsys[p].kind # "absent"

\* blake3 digest of a content: injective, and never the all-zero digest
RECURSIVE Digest(_)
Digest(c) == IF c = <<>> THEN 1 ELSE (c[1] + 1) + 5 * Digest(Tail(c))
\* patch_builder's hash_file
BuilderHashFile(c) == Digest(c)
\* patch_stub's hash_file
hash_file(c) == Digest(c)
\* [0u8; 32]
ZeroHash == 0

\* the delta codec, opaque: decode(encode(new, old), old) = new
\* (xdelta3::encode / xdelta3::decode); decoding against another source fails
XdeltaEncode(new, old) == [source |-> old, target |-> new]
XdeltaDecodable(patch, org) == patch.source = org
XdeltaDecode(patch, org) == patch.target

(* ------------------------------ trees --------------------------------- *)
\* a tree of regular files: no file sits where another file needs a directory
FileMaps ==
  UNION { [S -> Contents] :
          S \in { T \in SUBSET TreePaths :
                    /\ Cardinality(T) <= MaxFiles
                    /\ \A p \in T : HasParentDir(p) => Parent(p) \notin T } }

MkTree(f) ==
  [p \in FsPaths |->
     IF p \in DOMAIN f THEN File(f[p])
     ELSE IF \E q \in DOMAIN f : HasParentDir(q) /\ Parent(q) = p THEN Dir
     ELSE Absent]

FilesOf(fsys) == {p \in FsPaths : IsFile(fsys, p)}

\* the enumerations WalkDir can produce of the regular files of a tree
Walks(fsys) ==
  LET S == FilesOf(fsys)
      n == Cardinality(S)
  IN  { w \in [1..n -> S] : \A i, j \in 1..n : w[i] = w[j] => i = j }

SeqToSet(s) == {s[i] : i \in 1..Len(s)}

\* one of these enumerations: the files in the order of PathOrder
PathOrder ==
  << P("", "a", "dat"), P("", "a", "exe"), P("", "a", "tmp"), P("d", "b", "") >>
SortedWalk(fsys) == SelectSeq(PathOrder, LAMBDA p : IsFile(fsys, p))

VARIABLES
  old_dir,          \* the old tree (version A)
  new_dir,          \* the new tree (version B)
  delete_extra,     \* Args.delete_extra
  old_files,        \* build_bundle: enumeration of old_dir
  new_files,        \* build_bundle: enumeration of new_dir
  btask,            \* build_bundle: state of each classification task
  dtask,            \* build_bundle: state of each deletion task
  corder,           \* build_bundle: the order the classification tasks ended in
  temp_results,     \* build_bundle: collected TempResults
  deleted_entries,  \* build_bundle: collected Deleted entries
  bundle,           \* the PatchBundle
  bpc               \* build_bundle: phase

bvars == << old_dir, new_dir, delete_extra, old_files, new_files, btask, dtask,
            corder, temp_results, deleted_entries, bundle, bpc >>

VARIABLES
  fs,        \* the tree under the working directory of the stub
  fs0,       \* fs as it was when the current run of the stub started
  ntamper,   \* changes the environment has made to the tree since the build
  run,       \* runs of the stub started so far
  apc,       \* main: "start", "verify", "apply", "done" (Ok) or "failed" (Err)
  vpos,      \* verify_base_folder: index of the manifest entry to check next
  err,       \* the error main returned
  task,      \* apply_bundle: position of the task of each manifest entry
  terr,      \* apply_bundle: the error each task returned
  nbytes,    \* apply_bundle: the bytes each task writes (bytes / new_bytes)
  wpos,      \* apply_bundle: chunks each task has written to its file `out`
  fd         \* apply_bundle: where the file behind each task's `out` now lives

avars == << fs, fs0, ntamper, run, apc, vpos, err, task, terr, nbytes, wpos, fd >>

VARIABLES
  stub,      \* PATCH_STUB_EXE
  exe,       \* the bytes of the produced executable
  checks,    \* whether the stub was built with overflow checks
  lpc,       \* "init", "written" (the executable exists) or "loaded"
  ncorrupt,  \* changes made to the executable after it was written
  passed,    \* load_bundle: whether the trailer passed the length check
  loaded     \* what load_bundle returned

lvars == << stub, exe, checks, lpc, ncorrupt, passed, loaded >>

vars == << bvars, avars, lvars >>

NoPath == P("", "", "")
\* `out` not open / open on a file that no longer has a name
NoFd == P("", "", "<closed>")
Orphan == P("", "", "<unlinked>")
NoErr == [kind |-> "none", path |-> NoPath]
Error(k, p) == [kind |-> k, path |-> p]

NoResult == [kind |-> "none"]

\* the values of the applier's and the container's variables in a
\* specification that does not run them
ApplierIdle ==
  /\ fs = [p \in FsPaths |-> Absent]
  /\ fs0 = [p \in FsPaths |-> Absent]
  /\ ntamper = 0 /\ run = 0 /\ apc = "idle" /\ vpos = 1 /\ err = NoErr
  /\ task = <<>> /\ terr = <<>> /\ nbytes = <<>> /\ wpos = <<>> /\ fd = <<>>
ContainerIdle ==
  /\ stub = <<>> /\ exe = <<>> /\ checks = FALSE /\ lpc = "idle"
  /\ ncorrupt = 0 /\ passed = FALSE /\ loaded = NoResult

(* ------------------------------ builder ------------------------------- *)
Pending == [kind |-> [tag |-> "Pending"]]
NoBundle == [manifest |-> [product |-> "", from_version |-> "", to_version |-> "",
                           files |-> <<>>],
             entries |-> <<>>]

\* the closure of new_files.par_iter().map(..): classification of one new file
Classify(rel, old, new) ==
  LET new_hash == BuilderHashFile(new[rel].data)
  IN  IF IsFile(old, rel)
      THEN LET old_hash == BuilderHashFile(old[rel].data)
           IN  IF old_hash = new_hash
               THEN [path |-> rel, original_hash |-> old_hash, new_hash |-> new_hash,
                     kind |-> [tag |-> "Unchanged"]]
               ELSE [path |-> rel, original_hash |-> old_hash, new_hash |-> new_hash,
                     kind |-> [tag |-> "Patched",
                               data |-> [tag |-> "Xdelta",
                                         bytes |-> XdeltaEncode(new[rel].data, old[rel].data)]]]
      ELSE [path |-> rel, original_hash |-> ZeroHash, new_hash |-> new_hash,
            kind |-> [tag |-> "Added",
                      data |-> [tag |-> "Full", bytes |-> new[rel].data]]]

\* the closure of the deletion pass: one old file that new_set does not hold
DeletedEntry(rel, old) ==
  [path |-> rel, kind |-> [tag |-> "Deleted"],
   original_hash |-> BuilderHashFile(old[rel].data), new_hash |-> ZeroHash]

\* old_files.par_iter().filter(|rec| !new_set.contains(&rec.rel))
DeleteList(olds, news) == SelectSeq(olds, LAMBDA r : r \notin SeqToSet(news))

\* collect(): the slot of the output vector that receives the result of the
\* task for item i, when ndone tasks have completed before it
CollectPosPush(i, ndone) == ndone + 1
CollectPos(i, ndone) == i

\* the payload index given to a payload-carrying result: entries_vec.len()
NextIdxShared(entries_vec) == 0
NextIdx(entries_vec) == Len(entries_vec)

\* the serial final assembly: for r in temp_results { match r.kind .. }
RECURSIVE AssembleFrom(_, _, _, _)
AssembleFrom(rs, k, entries_vec, files_vec) ==
  IF k > Len(rs) THEN [entries |-> entries_vec, files |-> files_vec]
  ELSE LET r == rs[k] IN
    IF r.kind.tag = "Unchanged"
    THEN AssembleFrom(rs, k + 1, entries_vec,
           Append(files_vec, [path |-> r.path, kind |-> [tag |-> "Unchanged"],
                              original_hash |-> r.original_hash,
                              new_hash |-> r.new_hash]))
    ELSE LET idx == NextIdx(entries_vec) IN
         AssembleFrom(rs, k + 1, Append(entries_vec, r.kind.data),
           Append(files_vec, [path |-> r.path,
                              kind |-> [tag |-> r.kind.tag, idx |-> idx],
                              original_hash |-> r.original_hash,
                              new_hash |-> r.new_hash]))

\* files_vec.extend(deleted_entries), then the Manifest and the PatchBundle
AssembleNoExtend(rs, dels) ==
  LET a == AssembleFrom(rs, 1, <<>>, <<>>)
  IN  [manifest |-> [product |-> "prod", from_version |-> "1", to_version |-> "2",
                     files |-> a.files],
       entries |-> a.entries]
Assemble(rs, dels) ==
  LET a == AssembleFrom(rs, 1, <<>>, <<>>)
  IN  [manifest |-> [product |-> "prod", from_version |-> "1", to_version |-> "2",
                     files |-> a.files \o dels],
       entries |-> a.entries]

\* build_bundle as a function of the two enumerations: every task run in
\* enumeration order
BuildBundle(old, new, olds, news, de) ==
  Assemble([i \in 1..Len(news) |-> Classify(news[i], old, new)],
           IF de THEN LET dl == DeleteList(olds, news)
                      IN  [j \in 1..Len(dl) |-> DeletedEntry(dl[j], old)]
                 ELSE <<>>)

Running(t) == {i \in DOMAIN t : t[i] = "run"}
Done(t) == {i \in DOMAIN t : t[i] = "done"}

BuildInit ==
  /\ \E fa \in FileMaps, fb \in FileMaps :
       /\ Cardinality(DOMAIN fa \cup DOMAIN fb) <= MaxFiles
       /\ old_dir = MkTree(fa)
       /\ new_dir = MkTree(fb)
  /\ delete_extra \in BOOLEAN
  /\ old_files \in Walks(old_dir)
  /\ new_files \in Walks(new_dir)
  /\ btask = [i \in 1..Len(new_files) |-> "todo"]
  /\ dtask = [j \in 1..Len(IF delete_extra THEN DeleteList(old_files, new_files)
                           ELSE <<>>) |-> "todo"]
  /\ temp_results = [i \in 1..Len(new_files) |-> Pending]
  /\ deleted_entries = [j \in DOMAIN dtask |-> Pending]
  /\ corder = <<>>
  /\ bundle = NoBundle
  /\ bpc = "classify"
  /\ ApplierIdle
  /\ ContainerIdle

\* a worker of the pool takes the task of new file i
ClassifyStart(i) ==
  /\ bpc = "classify"
  /\ btask[i] = "todo"
  /\ Cardinality(Running(btask)) < NumWorkers
  /\ btask' = [btask EXCEPT ![i] = "run"]
  /\ UNCHANGED << avars, lvars, corder, old_dir, new_dir, delete_extra, old_files, new_files, dtask,
                  temp_results, deleted_entries, bundle, bpc >>

\* the task of new file i returns its TempResult, which collect() places
ClassifyFinish(i) ==
  /\ bpc = "classify"
  /\ btask[i] = "run"
  /\ btask' = [btask EXCEPT ![i] = "done"]
  /\ corder' = Append(corder, i)
  /\ temp_results' =
       [temp_results EXCEPT ![CollectPos(i, Cardinality(Done(btask)))] =
          Classify(new_files[i], old_dir, new_dir)]
  /\ UNCHANGED << avars, lvars, old_dir, new_dir, delete_extra, old_files, new_files, dtask,
                  deleted_entries, bundle, bpc >>

\* let temp_results = temp_results?; the deletion pass starts
ClassifyJoin ==
  /\ bpc = "classify"
  /\ \A i \in DOMAIN btask : btask[i] = "done"
  /\ bpc' = "delete"
  /\ UNCHANGED << avars, lvars, corder, old_dir, new_dir, delete_extra, old_files, new_files, btask,
                  dtask, temp_results, deleted_entries, bundle >>

DeleteStart(j) ==
  /\ bpc = "delete"
  /\ dtask[j] = "todo"
  /\ Cardinality(Running(dtask)) < NumWorkers
  /\ dtask' = [dtask EXCEPT ![j] = "run"]
  /\ UNCHANGED << avars, lvars, corder, old_dir, new_dir, delete_extra, old_files, new_files, btask,
                  temp_results, deleted_entries, bundle, bpc >>

DeleteFinish(j) ==
  /\ bpc = "delete"
  /\ dtask[j] = "run"
  /\ dtask' = [dtask EXCEPT ![j] = "done"]
  /\ deleted_entries' =
       [deleted_entries EXCEPT ![CollectPos(j, Cardinality(Done(dtask)))] =
          DeletedEntry(DeleteList(old_files, new_files)[j], old_dir)]
  /\ UNCHANGED << avars, lvars, corder, old_dir, new_dir, delete_extra, old_files, new_files, btask,
                  temp_results, bundle, bpc >>

\* the final assembly and the returned PatchBundle
AssembleBundle ==
  /\ bpc = "delete"
  /\ \A j \in DOMAIN dtask : dtask[j] = "done"
  /\ bundle' = Assemble(temp_results, deleted_entries)
  /\ bpc' = "done"
  /\ UNCHANGED << avars, lvars, corder, old_dir, new_dir, delete_extra, old_files, new_files, btask,
                  dtask, temp_results, deleted_entries >>

BuildNext ==
  \/ \E i \in DOMAIN btask : ClassifyStart(i)
  \/ \E i \in DOMAIN btask : ClassifyFinish(i)
  \/ ClassifyJoin
  \/ \E j \in DOMAIN dtask : DeleteStart(j)
  \/ \E j \in DOMAIN dtask : DeleteFinish(j)
  \/ AssembleBundle

SpecBuild == BuildInit /\ [][BuildNext]_vars
(* ------------------------------ applier ------------------------------- *)
files == bundle.manifest.files
entries == bundle.entries
EntryIds == 1..Len(files)
ListedKinds == {"Unchanged", "Patched", "Deleted"}

\* the check verify_base_folder makes of one manifest entry on a tree:
\* "ok", or the kind of the error it returns
PreimageCheckNoHash(f, fsys) ==
  IF f.kind.tag \in ListedKinds /\ f.original_hash # ZeroHash
  THEN IF ~Exists(fsys, f.path) THEN "PreconditionMissing"
       ELSE "ok"
  ELSE "ok"
PreimageCheck(f, fsys) ==
  IF f.kind.tag \in ListedKinds /\ f.original_hash # ZeroHash
  THEN IF ~Exists(fsys, f.path) THEN "PreconditionMissing"
       ELSE IF ~IsFile(fsys, f.path) THEN "IoFailure"
       ELSE IF hash_file(fsys[f.path].data) # f.original_hash
            THEN "PreconditionMismatch"
       ELSE "ok"
  ELSE "ok"

\* entries.get(idx) and the match on the payload variant
PayloadOk(f) ==
  /\ f.kind.idx + 1 \in DOMAIN entries
  /\ entries[f.kind.idx + 1].tag = (IF f.kind.tag = "Added" THEN "Full" ELSE "Xdelta")
Payload(f) == entries[f.kind.idx + 1].bytes

\* write_all of one chunk at offset `at` (in chunks) of a file's content
RECURSIVE Zeros(_)
Zeros(n) == IF n <= 0 THEN <<>> ELSE <<0>> \o Zeros(n - 1)
WriteAt(data, at, chunk) ==
  IF at >= Len(data) THEN data \o Zeros(at - Len(data)) \o <<chunk>>
  ELSE [data EXCEPT ![at + 1] = chunk]

\* fs::rename(from, to) on the names, and on the open files that follow them
RenameFs(fsys, from, to) ==
  IF from = to THEN fsys
  ELSE [fsys EXCEPT ![to] = fsys[from], ![from] = Absent]
RenameFd(fds, from, to) ==
  IF from = to THEN fds
  ELSE [k \in DOMAIN fds |->
          IF fds[k] = to THEN Orphan ELSE IF fds[k] = from THEN to ELSE fds[k]]
UnlinkFd(fds, p) == [k \in DOMAIN fds |-> IF fds[k] = p THEN Orphan ELSE fds[k]]

ActiveTask(i) == task[i] \notin {"todo", "done", "failed"}
ActiveTasks == {i \in EntryIds : ActiveTask(i)}
FailedTasks == {i \in EntryIds : task[i] = "failed"}

IdleTasks(fl) ==
  /\ task = [i \in 1..Len(fl) |-> "todo"]
  /\ terr = [i \in 1..Len(fl) |-> NoErr]
  /\ nbytes = [i \in 1..Len(fl) |-> <<>>]
  /\ wpos = [i \in 1..Len(fl) |-> 0]
  /\ fd = [i \in 1..Len(fl) |-> NoFd]

Init ==
  /\ \E fa \in FileMaps, fb \in FileMaps :
       /\ Cardinality(DOMAIN fa \cup DOMAIN fb) <= MaxFiles
       /\ old_dir = MkTree(fa)
       /\ new_dir = MkTree(fb)
  /\ delete_extra \in BOOLEAN
  /\ old_files = SortedWalk(old_dir)
  /\ new_files = SortedWalk(new_dir)
  /\ btask = <<>> /\ dtask = <<>> /\ temp_results = <<>> /\ deleted_entries = <<>>
  /\ corder = <<>>
  /\ bpc = "built"
  /\ ContainerIdle
  /\ bundle = BuildBundle(old_dir, new_dir, old_files, new_files, delete_extra)
  /\ fs = old_dir
  /\ fs0 = old_dir
  /\ ntamper = 0
  /\ run = 0
  /\ apc = "start"
  /\ vpos = 1
  /\ err = NoErr
  /\ IdleTasks(bundle.manifest.files)

(* the environment, between the build and the first run of the stub: each  *)
(* file of the copy of A is changed at most once                           *)
Untouched(p) == IsFile(fs, p) /\ fs[p] = old_dir[p]

TamperOverwrite(p, c) ==
  /\ apc = "start" /\ run = 0 /\ ntamper < MaxTamper
  /\ Untouched(p) /\ fs[p].data # c
  /\ fs' = [fs EXCEPT ![p] = File(c)]
  /\ ntamper' = ntamper + 1
  /\ UNCHANGED << bvars, lvars, fs0, run, apc, vpos, err, task, terr, nbytes, wpos, fd >>

TamperRemove(p) ==
  /\ apc = "start" /\ run = 0 /\ ntamper < MaxTamper
  /\ Untouched(p)
  /\ fs' = [fs EXCEPT ![p] = Absent]
  /\ ntamper' = ntamper + 1
  /\ UNCHANGED << bvars, lvars, fs0, run, apc, vpos, err, task, terr, nbytes, wpos, fd >>

\* the file is replaced by a directory of the same name
TamperMkdir(p) ==
  /\ apc = "start" /\ run = 0 /\ ntamper < MaxTamper
  /\ Untouched(p)
  /\ fs' = [fs EXCEPT ![p] = Dir]
  /\ ntamper' = ntamper + 1
  /\ UNCHANGED << bvars, lvars, fs0, run, apc, vpos, err, task, terr, nbytes, wpos, fd >>

(* main *)
\* the stub is started: load_bundle has returned the bundle
BeginRun ==
  /\ \/ apc = "start"
     \/ apc = "done" /\ run < MaxRuns
  /\ run' = run + 1
  /\ apc' = "verify"
  /\ vpos' = 1
  /\ err' = NoErr
  /\ fs0' = fs
  /\ task' = [i \in EntryIds |-> "todo"]
  /\ terr' = [i \in EntryIds |-> NoErr]
  /\ nbytes' = [i \in EntryIds |-> <<>>]
  /\ wpos' = [i \in EntryIds |-> 0]
  /\ fd' = [i \in EntryIds |-> NoFd]
  /\ UNCHANGED << bvars, lvars, fs, ntamper >>

\* verify_base_folder: one iteration of `for file in &bundle.manifest.files`
VerifyStep ==
  /\ apc = "verify"
  /\ vpos <= Len(files)
  /\ LET r == PreimageCheck(files[vpos], fs) IN
       IF r = "ok"
       THEN /\ vpos' = vpos + 1
            /\ UNCHANGED << apc, err >>
       ELSE /\ apc' = "failed"
            /\ err' = Error(r, files[vpos].path)
            /\ UNCHANGED vpos
  /\ UNCHANGED << bvars, lvars, fs, fs0, ntamper, run, task, terr, nbytes, wpos, fd >>

\* verify_base_folder returns Ok(()) and main calls apply_bundle
VerifyOk ==
  /\ apc = "verify"
  /\ vpos > Len(files)
  /\ apc' = "apply"
  /\ UNCHANGED << bvars, lvars, fs, fs0, ntamper, run, vpos, err, task, terr, nbytes, wpos, fd >>

(* apply_bundle: the closure of files.par_iter().try_for_each, step by step *)
Target(i) == files[i].path
Tmp(i) == SetExtension(Target(i))
TaskFail(i, k) ==
  /\ task' = [task EXCEPT ![i] = "failed"]
  /\ terr' = [terr EXCEPT ![i] = Error(k, Target(i))]

FirstStep(f) ==
  CASE f.kind.tag = "Unchanged" -> "done"
    [] f.kind.tag = "Deleted" -> "del_check"
    [] f.kind.tag = "Added" -> "add_mkdir"
    [] f.kind.tag = "Patched" -> "pat_read"

\* a worker of the pool takes the entry; try_for_each hands out no entry once
\* a task has returned an error
TaskStart(i) ==
  /\ apc = "apply"
  /\ task[i] = "todo"
  /\ FailedTasks = {}
  /\ Cardinality(ActiveTasks) < NumWorkers
  /\ task' = [task EXCEPT ![i] = FirstStep(files[i])]
  /\ UNCHANGED << bvars, lvars, fs, fs0, ntamper, run, apc, vpos, err, terr, nbytes, wpos, fd >>

\* Deleted: target.exists()
DelCheck(i) ==
  /\ apc = "apply"
  /\ task[i] = "del_check"
  /\ task' = [task EXCEPT ![i] = IF Exists(fs, Target(i)) THEN "del_remove" ELSE "done"]
  /\ UNCHANGED << bvars, lvars, fs, fs0, ntamper, run, apc, vpos, err, terr, nbytes, wpos, fd >>

\* Deleted: fs::remove_file(&target)
DelRemove(i) ==
  /\ apc = "apply"
  /\ task[i] = "del_remove"
  /\ IF IsFile(fs, Target(i))
     THEN /\ fs' = [fs EXCEPT ![Target(i)] = Absent]
          /\ fd' = UnlinkFd(fd, Target(i))
          /\ task' = [task EXCEPT ![i] = "done"]
          /\ UNCHANGED terr
     ELSE /\ TaskFail(i, "IoFailure")
          /\ UNCHANGED << fs, fd >>
  /\ UNCHANGED << bvars, lvars, fs0, ntamper, run, apc, vpos, err, nbytes, wpos >>

\* Added: entries.get(idx), the match on PatchData, fs::create_dir_all(parent)
AddMkdir(i) ==
  /\ apc = "apply"
  /\ task[i] = "add_mkdir"
  /\ IF ~PayloadOk(files[i])
     THEN TaskFail(i, "InvalidBundle") /\ UNCHANGED << fs, nbytes >>
     ELSE IF HasParentDir(Target(i)) /\ IsFile(fs, Parent(Target(i)))
     THEN TaskFail(i, "IoFailure") /\ UNCHANGED << fs, nbytes >>
     ELSE /\ fs' = IF HasParentDir(Target(i))
                   THEN [fs EXCEPT ![Parent(Target(i))] = Dir]
                   ELSE fs
          /\ nbytes' = [nbytes EXCEPT ![i] = Payload(files[i])]
          /\ task' = [task EXCEPT ![i] = "create"]
          /\ UNCHANGED terr
  /\ UNCHANGED << bvars, lvars, fs0, ntamper, run, apc, vpos, err, wpos, fd >>

\* Patched: entries.get(idx), the match on PatchData, metadata, the read of
\* the target, xdelta3::decode
PatRead(i) ==
  /\ apc = "apply"
  /\ task[i] = "pat_read"
  /\ IF ~PayloadOk(files[i])
     THEN TaskFail(i, "InvalidBundle") /\ UNCHANGED nbytes
     ELSE IF ~IsFile(fs, Target(i))
     THEN TaskFail(i, "IoFailure") /\ UNCHANGED nbytes
     ELSE IF ~XdeltaDecodable(Payload(files[i]), fs[Target(i)].data)
     THEN TaskFail(i, "CodecFailure") /\ UNCHANGED nbytes
     ELSE /\ nbytes' = [nbytes EXCEPT ![i] =
                          XdeltaDecode(Payload(files[i]), fs[Target(i)].data)]
          /\ task' = [task EXCEPT ![i] = "create"]
          /\ UNCHANGED terr
  /\ UNCHANGED << bvars, lvars, fs, fs0, ntamper, run, apc, vpos, err, wpos, fd >>

\* Added and Patched: File::create(&tmp); an existing file is truncated
Create(i) ==
  /\ apc = "apply"
  /\ task[i] = "create"
  /\ IF \/ fs[Tmp(i)] = Dir
        \/ HasParentDir(Tmp(i)) /\ fs[Parent(Tmp(i))] # Dir
     THEN TaskFail(i, "IoFailure") /\ UNCHANGED << fs, fd >>
     ELSE /\ fs' = [fs EXCEPT ![Tmp(i)] = File(<<>>)]
          /\ fd' = [fd EXCEPT ![i] = Tmp(i)]
          /\ task' = [task EXCEPT ![i] = "write"]
          /\ UNCHANGED terr
  /\ UNCHANGED << bvars, lvars, fs0, ntamper, run, apc, vpos, err, nbytes, wpos >>

\* Added and Patched: out.write_all(chunk) of the next chunk
WriteChunk(i) ==
  /\ apc = "apply"
  /\ task[i] = "write"
  /\ wpos[i] < Len(nbytes[i])
  /\ fs' = IF fd[i] = Orphan THEN fs
           ELSE [fs EXCEPT ![fd[i]] =
                   File(WriteAt(fs[fd[i]].data, wpos[i], nbytes[i][wpos[i] + 1]))]
  /\ wpos' = [wpos EXCEPT ![i] = wpos[i] + 1]
  /\ UNCHANGED << bvars, lvars, fs0, ntamper, run, apc, vpos, err, task, terr, nbytes, fd >>

\* Added and Patched: fs::rename(&tmp, &target), and `out` is dropped
Rename(i) ==
  /\ apc = "apply"
  /\ task[i] = "write"
  /\ wpos[i] = Len(nbytes[i])
  /\ IF ~IsFile(fs, Tmp(i)) \/ fs[Target(i)] = Dir
     THEN /\ TaskFail(i, "IoFailure")
          /\ fd' = [fd EXCEPT ![i] = NoFd]
          /\ UNCHANGED fs
     ELSE /\ fs' = RenameFs(fs, Tmp(i), Target(i))
          /\ fd' = [RenameFd(fd, Tmp(i), Target(i)) EXCEPT ![i] = NoFd]
          /\ task' = [task EXCEPT ![i] = "done"]
          /\ UNCHANGED terr
  /\ UNCHANGED << bvars, lvars, fs0, ntamper, run, apc, vpos, err, nbytes, wpos >>

\* try_for_each returns: Ok when every task has, else the error of a task
ApplyJoin ==
  /\ apc = "apply"
  /\ ActiveTasks = {}
  /\ \/ /\ \A i \in EntryIds : task[i] = "done"
        /\ apc' = "done"
        /\ UNCHANGED err
     \/ /\ \E i \in FailedTasks :
             /\ err' = terr[i]
             /\ apc' = "failed"
  /\ UNCHANGED << bvars, lvars, fs, fs0, ntamper, run, vpos, task, terr, nbytes, wpos, fd >>

Next ==
  \/ \E p \in TreePaths, c \in TamperedContents : TamperOverwrite(p, c)
  \/ \E p \in TreePaths : TamperRemove(p)
  \/ \E p \in TreePaths : TamperMkdir(p)
  \/ BeginRun
  \/ VerifyStep
  \/ VerifyOk
  \/ \E i \in EntryIds : TaskStart(i)
  \/ \E i \in EntryIds : DelCheck(i)
  \/ \E i \in EntryIds : DelRemove(i)
  \/ \E i \in EntryIds : AddMkdir(i)
  \/ \E i \in EntryIds : PatRead(i)
  \/ \E i \in EntryIds : Create(i)
  \/ \E i \in EntryIds : WriteChunk(i)
  \/ \E i \in EntryIds : Rename(i)
  \/ ApplyJoin

Spec == Init /\ [][Next]_vars

(* the stub on a bundle that decodes but that build_bundle did not produce *)
\* entry k refers past the end of entries
BadIdx(b, k) == [b EXCEPT !.manifest.files[k].kind.idx = Len(b.entries)]
\* the payload of entry k is of the other variant
WrongVariant(b, k) ==
  [b EXCEPT !.entries[b.manifest.files[k].kind.idx + 1].tag =
              IF @ = "Full" THEN "Xdelta" ELSE "Full"]
\* the bundles load_bundle can return that differ from a built one in one entry
Malformations(b) ==
  LET K == {k \in 1..Len(b.manifest.files) :
              b.manifest.files[k].kind.tag \in {"Added", "Patched"}}
  IN  {BadIdx(b, k) : k \in K} \cup {WrongVariant(b, k) : k \in K}

InitDecoded ==
  /\ \E fa \in FileMaps, fb \in FileMaps :
       /\ Cardinality(DOMAIN fa \cup DOMAIN fb) <= MaxFiles
       /\ old_dir = MkTree(fa)
       /\ new_dir = MkTree(fb)
  /\ delete_extra \in BOOLEAN
  /\ old_files = SortedWalk(old_dir)
  /\ new_files = SortedWalk(new_dir)
  /\ btask = <<>> /\ dtask = <<>> /\ temp_results = <<>> /\ deleted_entries = <<>>
  /\ corder = <<>>
  /\ bpc = "built"
  /\ ContainerIdle
  /\ bundle \in Malformations(BuildBundle(old_dir, new_dir, old_files, new_files,
                                          delete_extra))
  /\ fs = old_dir
  /\ fs0 = old_dir
  /\ ntamper = 0
  /\ run = 0
  /\ apc = "start"
  /\ vpos = 1
  /\ err = NoErr
  /\ IdleTasks(bundle.manifest.files)

NextDecoded ==
  \/ BeginRun
  \/ VerifyStep
  \/ VerifyOk
  \/ \E i \in EntryIds : TaskStart(i)
  \/ \E i \in EntryIds : DelCheck(i)
  \/ \E i \in EntryIds : DelRemove(i)
  \/ \E i \in EntryIds : AddMkdir(i)
  \/ \E i \in EntryIds : PatRead(i)
  \/ \E i \in EntryIds : Create(i)
  \/ \E i \in EntryIds : WriteChunk(i)
  \/ \E i \in EntryIds : Rename(i)
  \/ ApplyJoin

SpecDecoded == InitDecoded /\ [][NextDecoded]_vars

(* ----------------------------- container ------------------------------ *)
\* A byte of the executable holds a value below ByteRadix, and a u64 is
\* FooterLen such bytes: arithmetic on u64 is arithmetic modulo WordMod.
WordMod == ByteRadix ^ FooterLen
\* isize::MAX, the largest capacity a Vec can be given
IsizeMax == (WordMod \div 2) - 1

\* u64::to_le_bytes and u64::from_le_bytes
to_le_bytes(n) == [i \in 1..FooterLen |-> (n \div (ByteRadix ^ (i - 1))) % ByteRadix]
RECURSIVE from_le_bytes(_)
from_le_bytes(bs) ==
  IF bs = <<>> THEN 0 ELSE bs[1] + ByteRadix * from_le_bytes(Tail(bs))

(* bincode, standard configuration: integers as varints, sequences and    *)
(* strings with a length prefix, fixed arrays inline, enums by the index  *)
(* of the variant *)
VarintMarker == ByteRadix - 1
EncU(n) == IF n < VarintMarker THEN <<n>> ELSE <<VarintMarker>> \o to_le_bytes(n)
EncBytes(bs) == EncU(Len(bs)) \o bs
EncKind(k) ==
  CASE k.tag = "Unchanged" -> EncU(0)
    [] k.tag = "Patched" -> EncU(1) \o EncU(k.idx)
    [] k.tag = "Added" -> EncU(2) \o EncU(k.idx)
    [] k.tag = "Deleted" -> EncU(3)
EncFileEntry(f) ==
  EncBytes(f.path) \o EncKind(f.kind) \o f.original_hash \o f.new_hash
EncData(d) == EncU(IF d.tag = "Xdelta" THEN 0 ELSE 1) \o EncBytes(d.bytes)
RECURSIVE EncAll(_, _)
EncAll(Enc(_), xs) == IF xs = <<>> THEN <<>> ELSE Enc(xs[1]) \o EncAll(Enc, Tail(xs))
EncVec(Enc(_), xs) == EncU(Len(xs)) \o EncAll(Enc, xs)
\* bincode::encode_to_vec(bundle, standard())
Encode(b) ==
  EncBytes(b.manifest.product) \o EncBytes(b.manifest.from_version)
    \o EncBytes(b.manifest.to_version) \o EncVec(EncFileEntry, b.manifest.files)
    \o EncVec(EncData, b.entries)

\* a decoder returns the value and the bytes left, or fails
DecFail == [ok |-> FALSE]
DecOk(v, r) == [ok |-> TRUE, val |-> v, rest |-> r]
Drop(bs, n) == SubSeq(bs, n + 1, Len(bs))
DecU(bs) ==
  IF bs = <<>> THEN DecFail
  ELSE IF bs[1] < VarintMarker THEN DecOk(bs[1], Tail(bs))
  ELSE IF Len(bs) < 1 + FooterLen THEN DecFail
  ELSE DecOk(from_le_bytes(SubSeq(bs, 2, 1 + FooterLen)), Drop(bs, 1 + FooterLen))
DecArray(bs, n) ==
  IF Len(bs) < n THEN DecFail ELSE DecOk(SubSeq(bs, 1, n), Drop(bs, n))
DecBytes(bs) ==
  LET n == DecU(bs) IN IF ~n.ok THEN DecFail ELSE DecArray(n.rest, n.val)
DecKind(bs) ==
  LET t == DecU(bs) IN
  IF ~t.ok THEN DecFail
  ELSE CASE t.val = 0 -> DecOk([tag |-> "Unchanged"], t.rest)
         [] t.val = 3 -> DecOk([tag |-> "Deleted"], t.rest)
         [] t.val \in {1, 2} ->
              LET i == DecU(t.rest) IN
              IF ~i.ok THEN DecFail
              ELSE DecOk([tag |-> IF t.val = 1 THEN "Patched" ELSE "Added",
                          idx |-> i.val], i.rest)
         [] OTHER -> DecFail
DecFileEntry(bs) ==
  LET p == DecBytes(bs) IN
  IF ~p.ok THEN DecFail ELSE
  LET k == DecKind(p.rest) IN
  IF ~k.ok THEN DecFail ELSE
  LET o == DecArray(k.rest, HashLen) IN
  IF ~o.ok THEN DecFail ELSE
  LET n == DecArray(o.rest, HashLen) IN
  IF ~n.ok THEN DecFail
  ELSE DecOk([path |-> p.val, kind |-> k.val, original_hash |-> o.val,
              new_hash |-> n.val], n.rest)
DecData(bs) ==
  LET t == DecU(bs) IN
  IF ~t.ok \/ (t.ok /\ t.val \notin {0, 1}) THEN DecFail ELSE
  LET d == DecBytes(t.rest) IN
  IF ~d.ok THEN DecFail
  ELSE DecOk([tag |-> IF t.val = 0 THEN "Xdelta" ELSE "Full", bytes |-> d.val], d.rest)
RECURSIVE DecAll(_, _, _, _)
DecAll(Dec(_), bs, n, acc) ==
  IF n = 0 THEN DecOk(acc, bs)
  ELSE LET x == Dec(bs) IN
       IF ~x.ok THEN DecFail ELSE DecAll(Dec, x.rest, n - 1, Append(acc, x.val))
DecVec(Dec(_), bs) ==
  LET n == DecU(bs) IN
  IF ~n.ok THEN DecFail
  ELSE IF n.val > Len(n.rest) THEN DecFail
  ELSE DecAll(Dec, n.rest, n.val, <<>>)
\* bincode::borrow_decode_from_slice(&buffer, standard()): bytes left over
\* after the value are not an error
Decode(bs) ==
  LET p == DecBytes(bs) IN
  IF ~p.ok THEN DecFail ELSE
  LET f == DecBytes(p.rest) IN
  IF ~f.ok THEN DecFail ELSE
  LET t == DecBytes(f.rest) IN
  IF ~t.ok THEN DecFail ELSE
  LET fl == DecVec(DecFileEntry, t.rest) IN
  IF ~fl.ok THEN DecFail ELSE
  LET en == DecVec(DecData, fl.rest) IN
  IF ~en.ok THEN DecFail
  ELSE DecOk([manifest |-> [product |-> p.val, from_version |-> f.val,
                            to_version |-> t.val, files |-> fl.val],
              entries |-> en.val], en.rest)

\* build_installer_exe: the stub, the encoded bundle, the length footer
Footer(bundle_bytes) == to_le_bytes(Len(bundle_bytes))
build_installer_exe(b, st) ==
  LET bundle_bytes == Encode(b) IN st \o bundle_bytes \o Footer(bundle_bytes)

\* load_bundle: SeekFrom::Start(len - 8 - bundle_len)
BundleStartNoFooter(len, bundle_len) == (len - bundle_len) % WordMod
BundleStart(len, bundle_len) == (len - FooterLen - bundle_len) % WordMod

\* load_bundle on the bytes of the executable; oc: the stub was built with
\* overflow checks (a debug build), where bundle_len + 8 panics instead of
\* wrapping
load_bundle(file, oc) ==
  LET len == Len(file) IN
  IF len < FooterLen THEN [kind |-> "InvalidBundle", passed |-> FALSE]
  ELSE
    LET bundle_len == from_le_bytes(SubSeq(file, len - FooterLen + 1, len))
        sum == bundle_len + FooterLen
    IN  IF sum >= WordMod /\ oc THEN [kind |-> "Panic", passed |-> FALSE]
        ELSE IF sum % WordMod > len THEN [kind |-> "InvalidBundle", passed |-> FALSE]
        ELSE IF bundle_len > IsizeMax THEN [kind |-> "Panic", passed |-> TRUE]
        ELSE
          LET start == BundleStart(len, bundle_len)
              buffer == SubSeq(file, start + 1, start + bundle_len)
              d == IF start + bundle_len > len THEN DecFail ELSE Decode(buffer)
          IN  IF d.ok THEN [kind |-> "Ok", passed |-> TRUE, bundle |-> d.val]
              ELSE [kind |-> "InvalidBundle", passed |-> TRUE]

\* bundles, at the level of bytes
Hash(b) == [i \in 1..HashLen |-> b]
FileEntry(p, k, o, n) == [path |-> p, kind |-> k, original_hash |-> o, new_hash |-> n]
Bundle(fl, en) ==
  [manifest |-> [product |-> <<1, 2>>, from_version |-> <<1>>, to_version |-> <<>>,
                 files |-> fl],
   entries |-> en]
LoadBundles ==
  { Bundle(<<>>, <<>>),
    Bundle(<< FileEntry(<<1>>, [tag |-> "Unchanged"], Hash(3), Hash(3)) >>, <<>>),
    Bundle(<< FileEntry(<<4, 0, 2>>, [tag |-> "Added", idx |-> 0], Hash(0), Hash(5)) >>,
           << [tag |-> "Full", bytes |-> <<0, 1, 2, 3>>] >>),
    Bundle(<< FileEntry(<<1>>, [tag |-> "Unchanged"], Hash(3), Hash(3)),
              FileEntry(<<2>>, [tag |-> "Patched", idx |-> 0], Hash(1), Hash(2)),
              FileEntry(<<3>>, [tag |-> "Added", idx |-> 1], Hash(0), Hash(4)),
              FileEntry(<<4>>, [tag |-> "Deleted"], Hash(5), Hash(0)) >>,
           << [tag |-> "Xdelta", bytes |-> <<6>>], [tag |-> "Full", bytes |-> <<5>>] >>),
    Bundle(<< FileEntry(<<2>>, [tag |-> "Patched", idx |-> ByteRadix + 1], Hash(1), Hash(2)) >>,
           << [tag |-> "Full", bytes |-> <<>>] >>) }
Stubs == { <<6>>, <<3, 0, 0, 0, 0, 0, 0, 0, 0>> }

\* the trailer values tried on an executable of length len: the smallest,
\* the ones around len - 8, the ones around isize::MAX and the ones that
\* wrap when 8 is added
TrailerValues(len) ==
  {0, 1, 2} \cup {v \in (len - FooterLen - 3)..(len + 1) : v >= 0}
            \cup {IsizeMax, IsizeMax + 1}
            \cup {WordMod - k : k \in 1..(FooterLen + 1)}

LoadInit ==
  /\ old_dir = [p \in FsPaths |-> Absent]
  /\ new_dir = [p \in FsPaths |-> Absent]
  /\ delete_extra = FALSE
  /\ old_files = <<>> /\ new_files = <<>>
  /\ btask = <<>> /\ dtask = <<>> /\ corder = <<>>
  /\ temp_results = <<>> /\ deleted_entries = <<>>
  /\ bpc = "built"
  /\ bundle \in LoadBundles
  /\ ApplierIdle
  /\ stub \in Stubs
  /\ checks \in BOOLEAN
  /\ exe = <<>>
  /\ lpc = "init"
  /\ ncorrupt = 0
  /\ passed = FALSE
  /\ loaded = NoResult

\* the builder's main: build_installer_exe(&bundle, &args.output)
BuildInstaller ==
  /\ lpc = "init"
  /\ exe' = build_installer_exe(bundle, stub)
  /\ lpc' = "written"
  /\ UNCHANGED << bvars, avars, stub, checks, ncorrupt, passed, loaded >>

\* the executable loses its end
Truncate(n) ==
  /\ lpc = "written" /\ ncorrupt < MaxCorrupt
  /\ n < Len(exe)
  /\ exe' = SubSeq(exe, 1, n)
  /\ ncorrupt' = ncorrupt + 1
  /\ UNCHANGED << bvars, avars, stub, checks, lpc, passed, loaded >>

\* the last 8 bytes of the executable are overwritten
OverwriteTrailer(v) ==
  /\ lpc = "written" /\ ncorrupt < MaxCorrupt
  /\ Len(exe) >= FooterLen
  /\ to_le_bytes(v) # SubSeq(exe, Len(exe) - FooterLen + 1, Len(exe))
  /\ exe' = SubSeq(exe, 1, Len(exe) - FooterLen) \o to_le_bytes(v)
  /\ ncorrupt' = ncorrupt + 1
  /\ UNCHANGED << bvars, avars, stub, checks, lpc, passed, loaded >>

\* the stub's main: let bundle = load_bundle()?
LoadBundle ==
  /\ lpc = "written"
  /\ LET r == load_bundle(exe, checks) IN
       /\ passed' = r.passed
       /\ loaded' = IF r.kind = "Ok" THEN [kind |-> "Ok", bundle |-> r.bundle]
                    ELSE [kind |-> r.kind]
  /\ lpc' = "loaded"
  /\ UNCHANGED << bvars, avars, stub, exe, checks, ncorrupt >>

LoadNext ==
  \/ BuildInstaller
  \/ \E n \in 0..(FooterLen + 1) : Truncate(n)
  \/ \E v \in TrailerValues(Len(exe)) : OverwriteTrailer(v)
  \/ LoadBundle

SpecLoad == LoadInit /\ [][LoadNext]_vars

(* ------------------------ claims on the container --------------------- *)
\* the value of the last 8 bytes of the executable, as an unbounded integer
Trailer == from_le_bytes(SubSeq(exe, Len(exe) - FooterLen + 1, Len(exe)))
BadTrailer == Len(exe) < FooterLen \/ Trailer + FooterLen > Len(exe)

\* C5 (trailer validation): load_bundle returns an InvalidBundle error,
\* without passing the length check, whenever L < 8 or B + 8 > L in exact
\* arithmetic; otherwise it returns what the decoder makes of the B bytes
\* at offsets [L-8-B, L-8).
C5_TrailerValidation ==
  lpc = "loaded" =>
    IF BadTrailer
    THEN loaded.kind = "InvalidBundle" /\ ~passed
    ELSE LET d == Decode(SubSeq(exe, Len(exe) - FooterLen - Trailer + 1,
                                Len(exe) - FooterLen))
         IN  loaded = IF d.ok THEN [kind |-> "Ok", bundle |-> d.val]
                      ELSE [kind |-> "InvalidBundle"]

\* C6 (container round trip): the executable build_installer_exe writes is
\* the stub, the encoded bundle and the 8-byte little-endian length of the
\* encoded bundle, and load_bundle on it returns the bundle.
C6_ContainerRoundTrip ==
  (lpc \in {"written", "loaded"} /\ ncorrupt = 0) =>
    LET B == Len(Encode(bundle)) IN
    /\ Len(exe) = Len(stub) + B + FooterLen
    /\ SubSeq(exe, 1, Len(stub)) = stub
    /\ SubSeq(exe, Len(stub) + 1, Len(stub) + B) = Encode(bundle)
    /\ \A i \in 1..FooterLen :
         exe[Len(stub) + B + i] = (B \div (ByteRadix ^ (i - 1))) % ByteRadix
    /\ lpc = "loaded" => loaded = [kind |-> "Ok", bundle |-> bundle]

\* C6 witness: load_bundle has returned a bundle of four manifest entries
\* and two payloads from the executable as written
C6_Witness ==
  /\ lpc = "loaded" /\ ncorrupt = 0
  /\ loaded.kind = "Ok"
  /\ Len(loaded.bundle.manifest.files) = 4
  /\ Len(loaded.bundle.entries) = 2

(* ------------------------- claims on the applier ---------------------- *)
RunFinished == apc \in {"done", "failed"}
Listed(i) == files[i].kind.tag \in ListedKinds /\ files[i].original_hash # ZeroHash
\* listed entries whose file holds other bytes than the build hashed
Mismatched(fsys) ==
  {i \in EntryIds : /\ Listed(i)
                    /\ IsFile(fsys, Target(i))
                    /\ Digest(fsys[Target(i)].data) # files[i].original_hash}
\* listed entries whose path is no regular file
NotRegular(fsys) == {i \in EntryIds : Listed(i) /\ ~IsFile(fsys, Target(i))}
\* the post-image of the target of an entry
PostImage(i) == new_dir[Target(i)]

\* the tree is B, up to the files of A that B lacks when delete_extra is unset
TreeIsNew ==
  \A p \in FsPaths :
    IF IsFile(new_dir, p) THEN fs[p] = new_dir[p]
    ELSE \/ ~IsFile(fs, p)
         \/ ~delete_extra /\ IsFile(old_dir, p) /\ fs[p] = old_dir[p]

\* C1 (round trip): the first run of the stub on an unchanged copy of A
\* does not fail, and when it has returned Ok the tree is B (files of A that
\* B lacks may remain when delete_extra is unset).
C1_RoundTrip ==
  (run = 1 /\ ntamper = 0) => /\ apc # "failed"
                              /\ apc = "done" => TreeIsNew

\* C2 as stated (pre-image verification): when a listed file holds other
\* bytes than at build time, the run fails with PreconditionMismatch and the
\* tree is left as the run found it.
C2_Original ==
  (RunFinished /\ Mismatched(fs0) # {})
    => apc = "failed" /\ err.kind = "PreconditionMismatch" /\ fs = fs0

\* the listed entries whose pre-image is not the one the build hashed
BadPreimage(fsys) == NotRegular(fsys) \cup Mismatched(fsys)
\* the first of them in manifest order
FirstBad(fsys) ==
  CHOOSE i \in BadPreimage(fsys) : \A j \in BadPreimage(fsys) : i <= j

\* C2 as amended: no task of apply_bundle starts before every pre-image
\* check has passed; and when a listed file holds other bytes than at build
\* time the run fails in verification, with the tree left as the run found
\* it, no task started, and the error naming the first manifest entry whose
\* pre-image is wrong: PreconditionMismatch when that entry is a regular
\* file with other bytes.
C2_PreimageVerification ==
  /\ (\E i \in EntryIds : task[i] # "todo")
       => vpos = Len(files) + 1 /\ BadPreimage(fs0) = {}
  /\ apc = "verify" => fs = fs0
  /\ (RunFinished /\ Mismatched(fs0) # {})
       => /\ apc = "failed"
          /\ fs = fs0
          /\ \A i \in EntryIds : task[i] = "todo"
          /\ err.path = Target(FirstBad(fs0))
          /\ FirstBad(fs0) \in Mismatched(fs0)
               => err.kind = "PreconditionMismatch"

\* C2 witness: a run has failed with PreconditionMismatch on a file the
\* environment overwrote, which still holds the overwritten bytes
C2_Witness ==
  /\ apc = "failed" /\ run = 1 /\ ntamper > 0
  /\ err.kind = "PreconditionMismatch"
  /\ fs[err.path] = File(<<3>>)
  /\ Len(files) > 1

\* C3 (missing-file detection): when the path of a listed entry is no
\* regular file (absent, or a directory), the run fails with
\* PreconditionMissing and the tree is left as the run found it.
C3_MissingFile ==
  (RunFinished /\ NotRegular(fs0) # {})
    => apc = "failed" /\ err.kind = "PreconditionMissing" /\ fs = fs0

\* C4 (idempotent deletion): a second run of the stub, right after a first
\* run that returned Ok, with a bundle that holds a Deleted entry, does not
\* fail.
C4_IdempotentDeletion ==
  (run = 2 /\ ntamper = 0 /\ \E i \in EntryIds : files[i].kind.tag = "Deleted")
    => apc # "failed"

\* C10 (per-file atomicity): while apply_bundle runs, and after it, the
\* target of every Added or Patched entry is as the run found it or holds
\* the complete post-image.
C10_Atomicity ==
  apc \in {"apply", "done", "failed"}
    => \A i \in EntryIds :
         files[i].kind.tag \in {"Added", "Patched"}
           => fs[Target(i)] \in {fs0[Target(i)], PostImage(i)}

\* the paths the task of an entry writes, renames or removes: the target,
\* and for Added and Patched the temporary file
TaskPaths(i) ==
  CASE files[i].kind.tag \in {"Added", "Patched"} -> {Target(i), Tmp(i)}
    [] files[i].kind.tag = "Deleted" -> {Target(i)}
    [] OTHER -> {}
UniquePaths == \A i, j \in EntryIds : i # j => Target(i) # Target(j)
NoNesting ==
  \A i, j \in EntryIds :
    ~(HasParentDir(Target(j)) /\ Parent(Target(j)) = Target(i))

\* C11 (disjoint worker path sets): for a manifest of unique paths, none the
\* parent directory of another, the path sets of the tasks of two different
\* entries that workers have taken are disjoint, and no two tasks hold their
\* file `out` open on the same path.
C11_DisjointPaths ==
  (UniquePaths /\ NoNesting) =>
    \A i, j \in EntryIds :
      (i # j /\ task[i] # "todo" /\ task[j] # "todo")
        => /\ TaskPaths(i) \cap TaskPaths(j) = {}
           /\ fd[i] \notin {NoFd, Orphan} => fd[i] # fd[j]

\* the targets of the Added, Patched and Deleted entries
ChangedTargets ==
  {Target(i) : i \in {j \in EntryIds :
                        files[j].kind.tag \in {"Added", "Patched", "Deleted"}}}

\* C12 (frame of apply): when a run has returned Ok, every path that is not
\* the target of an Added, Patched or Deleted entry holds the file it held
\* when the run started, and no file where it held none.
C12_Frame ==
  apc = "done" =>
    \A p \in FsPaths \ ChangedTargets :
      (IsFile(fs0, p) \/ IsFile(fs, p)) => fs[p] = fs0[p]

\* some Added or Patched entry has no payload of its variant at its index
Malformed ==
  \E i \in EntryIds :
    /\ files[i].kind.tag \in {"Added", "Patched"}
    /\ \/ files[i].kind.idx >= Len(entries)
       \/ entries[files[i].kind.idx + 1].tag
            # (IF files[i].kind.tag = "Added" THEN "Full" ELSE "Xdelta")

\* C13 (eager bundle validation): on a bundle with an Added or Patched entry
\* whose index is out of range or whose payload is of the wrong variant, the
\* run creates, modifies and deletes no file, and ends with an InvalidBundle
\* error.
C13_EagerValidation ==
  Malformed => /\ \A p \in FsPaths :
                    (IsFile(fs0, p) \/ IsFile(fs, p)) => fs[p] = fs0[p]
               /\ RunFinished => apc = "failed" /\ err.kind = "InvalidBundle"

\* the task of entry i has returned Ok and its target is in its post-image
\* state: the new content, or absence for a Deleted entry
Applied(i) ==
  CASE files[i].kind.tag \in {"Added", "Patched"} -> fs[Target(i)] = PostImage(i)
    [] files[i].kind.tag = "Deleted" -> ~Exists(fs, Target(i))
    [] OTHER -> TRUE

\* C14 (failure propagation): once the task of an entry has failed, no
\* further entry is taken by a worker; the error apply_bundle returns names
\* the path of an entry whose task failed; and the target of every entry
\* whose task had completed is in its post-image state.
C14_FailurePropagation ==
  /\ [][FailedTasks # {} =>
          \A i \in EntryIds : task[i] = "todo" => task'[i] = "todo"]_vars
  /\ []((apc = "failed" /\ vpos > Len(files))
          => \E i \in FailedTasks : err.path = Target(i))
  /\ [](FailedTasks # {}
          => \A i \in EntryIds : task[i] = "done" => Applied(i))

(* ------------------------- claims on the builder ---------------------- *)
HasIdx(f) == f.kind.tag \in {"Patched", "Added"}
\* the manifest entries that refer to payload slot k (0-based)
RefsTo(k) == {i \in EntryIds : HasIdx(files[i]) /\ files[i].kind.idx = k}

\* C7 (kind/payload invariant): in the bundle build_bundle returns, every
\* Patched{idx} has idx < |entries| and an Xdelta payload there, every
\* Added{idx} has idx < |entries| and a Full payload there, and every slot
\* of entries is referred to by exactly one manifest entry.
C7_KindPayload ==
  bpc = "done" =>
    /\ \A i \in EntryIds :
         HasIdx(files[i]) =>
           /\ files[i].kind.idx \in 0..(Len(entries) - 1)
           /\ entries[files[i].kind.idx + 1].tag =
                (IF files[i].kind.tag = "Patched" THEN "Xdelta" ELSE "Full")
    /\ \A k \in 0..(Len(entries) - 1) : Cardinality(RefsTo(k)) = 1

\* C7 witness: a returned bundle with a Patched and an Added entry
C7_Witness ==
  /\ bpc = "done"
  /\ Len(entries) = 2
  /\ \E i, j \in EntryIds :
       files[i].kind.tag = "Patched" /\ files[j].kind.tag = "Added"

\* C8 (parallel determinism): whatever the order in which the tasks of the
\* pool start and end, build_bundle returns the bundle that running every
\* task in enumeration order gives; and while the tasks run, no result
\* carries a payload index and no payload has a slot.
C8_Determinism ==
  /\ bpc # "done" =>
       /\ bundle = NoBundle
       /\ \A i \in DOMAIN temp_results : "idx" \notin DOMAIN temp_results[i].kind
  /\ bpc = "done" =>
       bundle = BuildBundle(old_dir, new_dir, old_files, new_files, delete_extra)

\* C8 witness: a bundle returned after the task of the second new file ended
\* before the task of the first, the two results being of different kinds
C8_Witness ==
  /\ bpc = "done"
  /\ corder = <<2, 1>>
  /\ files[1].kind.tag # files[2].kind.tag

\* C9 (manifest order and index assignment): the manifest holds one entry
\* per new file in the order of new_files, then, only when delete_extra is
\* set, one Deleted entry per old file that the new tree lacks, in the order
\* of old_files; the indices of the Patched and Added entries, in manifest
\* order, are 0, 1, 2, ... and entries holds exactly their payloads.
C9_ManifestOrder ==
  bpc = "done" =>
    LET n == Len(new_files)
        gone == IF delete_extra
                THEN SelectSeq(old_files, LAMBDA p : ~IsFile(new_dir, p))
                ELSE <<>>
    IN  /\ Len(files) = n + Len(gone)
        /\ \A i \in 1..n :
             /\ files[i].path = new_files[i]
             /\ files[i].kind.tag \in {"Unchanged", "Patched", "Added"}
        /\ \A j \in 1..Len(gone) :
             /\ files[n + j].path = gone[j]
             /\ files[n + j].kind.tag = "Deleted"
        /\ \A i \in EntryIds :
             HasIdx(files[i]) =>
               files[i].kind.idx =
                 Cardinality({j \in 1..(i - 1) : HasIdx(files[j])})
        /\ Len(entries) = Cardinality({i \in EntryIds : HasIdx(files[i])})

\* C9 witness: a returned manifest with a Patched{0} entry followed by the
\* Deleted entry of an old file the new tree lacks
C9_Witness ==
  /\ bpc = "done"
  /\ delete_extra
  /\ Len(files) = 2
  /\ files[1].kind = [tag |-> "Patched", idx |-> 0]
  /\ files[2].kind.tag = "Deleted"
  /\ entries[1].tag = "Xdelta"

====
